---- MODULE Spec2Model ----
(***************************************************************************)
(* Second Brain: the knowledge store adapter (vector_db.py), the HTTP API  *)
(* backend (api_backend.py) and the menu-bar host with its local web chat  *)
(* UI (menubar_app.py, web_ui.py).                                         *)
(*                                                                         *)
(* Spec    one process: the API backend, the menu-bar host, or the web     *)
(*         chat UI run on its own with a callback of its caller (all bind  *)
(*         127.0.0.1:5555), its background initialization thread and its   *)
(*         request threads, interleaved statement by statement.            *)
(* SpecDB  a client of VectorDatabase calling its methods one at a time,   *)
(*         as vector_db.py's own __main__ block does.                      *)
(*                                                                         *)
(* External collaborators (Qdrant, the OCR engine, the QA chain, Flask)    *)
(* are black boxes: a call returns one of the results it can return, or    *)
(* raises.  uuid.uuid4() returns an identifier never returned before.      *)
(* print() never raises.                                                   *)
(***************************************************************************)
EXTENDS Integers, Sequences, FiniteSets, TLC

(* ------------------------------ bounds -------------------------------- *)

\* requests (or adapter calls) started in one behaviour
MaxRequests == 2
\* points already in the collection when the process starts
MaxInitPoints == 2
\* ticks of the wall clock
MaxClock == 2
\* texts of one add_texts_batch call
MaxBatch == 2
\* calls a client of VectorDatabase makes in one behaviour
MaxCalls == 2

(* ------------------------------ inputs -------------------------------- *)

\* Python's None, for the component handles
None == "None"

\* request threads of the (threaded) Flask server
Threads == {"t1", "t2"}

\* str(e) of the exceptions the collaborators raise
Exceptions == {"e1", "e2"}

\* texts the OCR engine returns or a caller stores
Texts == {"", "   short   ", "0123456789", " 0123456789ab "}

\* query strings of a request body
Queries == {"q1"}

\* answers of the language model
Answers == {"a1"}

(* ------------------------------ state --------------------------------- *)

VARIABLES
    host,                  \* the program that runs: "api", "menubar", "web_ui"
                           \* or "vector_db"
    collection,            \* the Qdrant collection "book_knowledge"
    uuids,                 \* how many identifiers uuid4() has returned
    clock,                 \* datetime.now()
    initPc,                \* where the initialize_components thread is
    vector_db, llm, embeddings, qa_chain,   \* the component handles
    web_ui,                \* SecondBrainApp.web_ui
    is_running,            \* WebChatUI.is_running: its server thread is started
    initialization_status, \* api_backend.initialization_status
    chat_history,          \* api_backend.chat_history
    ui_history,            \* WebChatUI.chat_history
    pc,                    \* per thread: the statement it is about to run
    req,                   \* per thread: the locals of its handler
    resp,                  \* per thread: the response of its last request
    started,               \* requests started so far
    dbcall                 \* SpecDB: the last adapter call, its arguments and result

vars == <<host, collection, uuids, clock, initPc, vector_db, llm, embeddings,
          qa_chain, web_ui, is_running, initialization_status, chat_history,
          ui_history, pc, req, resp, started, dbcall>>

compVars == <<vector_db, llm, embeddings, qa_chain, web_ui, is_running>>

(* ------------------------ Python dictionaries ------------------------- *)

\* {}
EmptyDict == <<>>

\* d[k] = v
SetKey(d, k, v) == [x \in (DOMAIN d) \cup {k} |-> IF x = k THEN v ELSE d[x]]

\* d.get(k, default)
DictGet(d, k, default) == IF k \in DOMAIN d THEN d[k] ELSE default

(* --------------------------- vector_db.py ----------------------------- *)

\* self.embedding_dim of all-MiniLM-L6-v2
EmbeddingDim == 384

\* datetime.now().isoformat()
IsoFormat(t) == "T" \o ToString(t)

\* self.embedding_model.encode(text).tolist(): a vector determined by the text
Encode(text) == "vec(" \o text \o ")"

\* a variant of Uuid4 that returns the same identifier at every call
Uuid4_Repeat(n) == 1

\* str(uuid.uuid4()), the n-th identifier drawn
Uuid4(n) == n

\* no collection of that name in the store
NoCollection == [exists |-> FALSE, size |-> 0, distance |-> "", points |-> <<>>]

\* client.create_collection(name, VectorParams(size, distance))
CreateCollection(size, distance) ==
    [exists |-> TRUE, size |-> size, distance |-> distance, points |-> <<>>]

\* a variant of EnsureCollection that creates the collection anew every time
EnsureCollection_Recreate(coll) == CreateCollection(EmbeddingDim, "Cosine")

\* _create_collection_if_not_exists
EnsureCollection(coll) ==
    IF ~coll.exists THEN CreateCollection(EmbeddingDim, "Cosine") ELSE coll

\* a variant of DeleteCollection that leaves the collection in the store
DeleteCollection_Noop(coll) == coll

\* client.delete_collection(name)
DeleteCollection(coll) == NoCollection

\* PointStruct(id, vector, payload): pydantic validates the payload into a
\* dictionary of its own, a snapshot of the one it is given
PointStruct(id, vector, payload) == [id |-> id, vector |-> vector, payload |-> payload]

\* the points of a collection after client.upsert(points): a new id is added, an
\* existing id is overwritten
UpsertPoints(old, pts) ==
    LET ids == {pts[i].id : i \in 1..Len(pts)}
        lastOf(id) == CHOOSE i \in 1..Len(pts) :
                         /\ pts[i].id = id
                         /\ \A j \in 1..Len(pts) : pts[j].id = id => j <= i
    IN  [id \in (DOMAIN old) \cup ids |->
            IF id \in ids
            THEN [vector |-> pts[lastOf(id)].vector, payload |-> pts[lastOf(id)].payload]
            ELSE old[id]]

\* client.upsert: fails when the collection does not exist
Upsert(coll, pts) ==
    IF coll.exists
    THEN [ok |-> TRUE, coll |-> [coll EXCEPT !.points = UpsertPoints(coll.points, pts)]]
    ELSE [ok |-> FALSE, coll |-> coll]

\* add_text, lines 59-60: metadata defaults to a new {}
DefaultMetadata(metadata) == IF metadata = <<>> THEN EmptyDict ELSE metadata[1]

\* a variant of StampIfAbsent that stamps the time over the caller's timestamp
StampAlways(metadata, now) == SetKey(metadata, "timestamp", IsoFormat(now))

\* add_text, lines 62-63: stamp the time unless the caller did
StampIfAbsent(metadata, now) ==
    IF "timestamp" \notin DOMAIN metadata
    THEN SetKey(metadata, "timestamp", IsoFormat(now))
    ELSE metadata

\* add_text, lines 59-65: the payload of the point
AddTextPayload(text, metadata, now) ==
    SetKey(StampIfAbsent(DefaultMetadata(metadata), now), "text", text)

\* a variant of AddTextId that numbers the point after the points it finds stored
AddTextId_Count(coll, n) == Cardinality(DOMAIN coll.points) + 1

\* add_text, line 56: the id of the new point
AddTextId(coll, n) == Uuid4(n + 1)

\* add_text: the point handed to upsert
AddTextPoint(coll, text, metadata, n, now) ==
    PointStruct(AddTextId(coll, n), Encode(text), AddTextPayload(text, metadata, now))

\* add_text(text, metadata): the store afterwards and the id returned
AddText(coll, text, metadata, n, now) ==
    LET p == AddTextPoint(coll, text, metadata, n, now)
        u == Upsert(coll, <<p>>)
    IN  [ok |-> u.ok, coll |-> u.coll, ret |-> p.id]

\* get_stats: total_points
TotalPoints(coll) == Cardinality(DOMAIN coll.points)

(* add_texts_batch *)

\* line 84-85: [{}] * len(texts) is n references to ONE dictionary; a list the
\* caller supplies holds one dictionary per entry.  heap: the dictionaries;
\* refs: per list entry, the dictionary it refers to
BatchHeap(texts, metadatas) ==
    IF metadatas = <<>> THEN <<EmptyDict>> ELSE metadatas[1]

BatchRefs(texts, metadatas) ==
    IF metadatas = <<>>
    THEN [i \in 1..Len(texts) |-> 1]
    ELSE [i \in 1..Len(metadatas[1]) |-> i]

\* zip(texts, embeddings, metadatas) stops at the shortest
ZipLen(texts, refs) == IF Len(texts) <= Len(refs) THEN Len(texts) ELSE Len(refs)

\* lines 98-99: the dictionary after one iteration has stamped it
BatchStamp(metadata, text, now) ==
    SetKey(SetKey(metadata, "timestamp",
                  DictGet(metadata, "timestamp", IsoFormat(now))),
           "text", text)

\* a variant of BatchId that draws the identifier once, before the loop
BatchIdOnce(n, i) == Uuid4(n + 1)

\* line 95: the id of the i-th point
BatchId(n, i) == Uuid4(n + i)

\* lines 93-107: the loop from iteration i on; nows[i] is the clock at iteration i
RECURSIVE BatchLoop(_, _, _, _, _, _, _)
BatchLoop(i, texts, refs, heap, n, nows, points) ==
    IF i > ZipLen(texts, refs)
    THEN points
    ELSE LET md == BatchStamp(heap[refs[i]], texts[i], nows[i])
         IN  BatchLoop(i + 1, texts, refs, [heap EXCEPT ![refs[i]] = md], n, nows,
                       Append(points, PointStruct(BatchId(n, i), Encode(texts[i]), md)))

\* line 117: [p.id for p in points]
PointIds(points) == [i \in 1..Len(points) |-> points[i].id]

\* add_texts_batch(texts, metadatas): the store afterwards and the ids returned
AddTextsBatch(coll, texts, metadatas, n, nows) ==
    LET points == BatchLoop(1, texts, BatchRefs(texts, metadatas),
                            BatchHeap(texts, metadatas), n, nows, <<>>)
        u == Upsert(coll, points)
    IN  [ok |-> u.ok, coll |-> u.coll, ret |-> PointIds(points)]


(* ----------------------- handlers' locals, responses ------------------ *)

\* the locals of a handler that has not started
NoReq == [op |-> "none", body |-> [kind |-> "absent", data |-> <<>>],
          user_query |-> "", ready |-> FALSE, seen |-> FALSE, invoked |-> 0,
          raised |-> FALSE, answer |-> "", sources |-> <<>>, text |-> "",
          doc_id |-> 0, docs |-> <<>>, deleted |-> FALSE]

\* no response yet.  code 0: none; "absent": the payload has no such key;
\* escaped: an exception left the handler and Flask answered in its place
NoResp == [code |-> 0, success |-> "absent", error |-> "", message |-> "",
           response |-> "", sources |-> <<>>, initialized |-> "absent",
           text_length |-> -1, total_points |-> -1, history |-> <<>>,
           escaped |-> FALSE]

\* jsonify(payload), status
Json(code, payload) ==
    [k \in DOMAIN NoResp |->
        IF k = "code" THEN code
        ELSE IF k \in DOMAIN payload THEN payload[k] ELSE NoResp[k]]

\* what Flask answers when an exception leaves a view function
Escaped(code) == [NoResp EXCEPT !.code = code, !.escaped = TRUE]

\* True / False in a JSON payload
Bool(b) == IF b THEN "true" ELSE "false"

\* initialization_status as the module sets it at import, line 26
InitialStatus == [ready |-> FALSE, message |-> "Initializing..."]

\* line 66
ReadyStatus == [ready |-> TRUE, message |-> "All systems ready!"]

\* line 70
ErrorStatus(e) == [ready |-> FALSE, message |-> "Error: " \o e]

\* request bodies of POST /api/query: no JSON body, a body that does not parse,
\* JSON that is not an object, and JSON objects
Bodies ==
    {[kind |-> k, data |-> <<>>] : k \in {"absent", "malformed", "nonobject"}}
    \cup {[kind |-> "object", data |-> d] :
            d \in {EmptyDict, [query |-> ""]} \cup {[query |-> q] : q \in Queries}}

\* the operations of the API backend
ApiOps == {"query", "health", "capture", "stats", "get_history", "clear_history",
           "clear_database"}

\* the first statement of each view function
EntryPc(op) ==
    CASE op = "query" -> "query91"
      [] op = "health" -> "health83"
      [] op = "capture" -> "capture139"
      [] op = "stats" -> "stats171"
      [] op = "get_history" -> "history190"
      [] op = "clear_history" -> "history197"
      [] op = "clear_database" -> "clear204"
      [] op = "ui_query" -> "ui53"
      [] op = "ui_clear" -> "ui108"
      [] op = "callback" -> "cb69"
      [] op = "mb_capture" -> "mbcap133"
      [] op = "mb_clear_database" -> "mbclear257"
      [] op = "handle_query" -> "hq315"

\* text.strip(): Python's whitespace stripped from both ends
Whitespace == {" ", "\t", "\n"}

RECURSIVE LStrip(_)
LStrip(s) ==
    IF Len(s) > 0 /\ SubSeq(s, 1, 1) \in Whitespace
    THEN LStrip(SubSeq(s, 2, Len(s)))
    ELSE s

RECURSIVE RStrip(_)
RStrip(s) ==
    IF Len(s) > 0 /\ SubSeq(s, Len(s), Len(s)) \in Whitespace
    THEN RStrip(SubSeq(s, 1, Len(s) - 1))
    ELSE s

Strip(s) == LStrip(RStrip(s))

\* a variant of Prefix that keeps the whole string
Prefix_Whole(s, n) == s

\* s[:n]
Prefix(s, n) == IF Len(s) <= n THEN s ELSE SubSeq(s, 1, n)

(* ------------------------------ SpecDB -------------------------------- *)

\* the text of a screenful, 160 characters
LongText ==
    "0123456789abcdefghij0123456789abcdefghij0123456789abcdefghij0123456789abcdefghij"
    \o "0123456789abcdefghij0123456789abcdefghij0123456789abcdefghij0123456789ABCDEFGHIJ"

\* a point stored by an earlier run of the program
OldPoint == [vector |-> Encode(LongText),
             payload |-> [source |-> "screenshot", timestamp |-> IsoFormat(0),
                          text |-> LongText]]

\* the collection as the constructor finds or creates it
InitCollections ==
    {[CreateCollection(EmbeddingDim, "Cosine") EXCEPT
         !.points = [id \in 1..k |-> OldPoint]] : k \in 0..MaxInitPoints}

\* metadata dictionaries of a caller
MetaDicts == {EmptyDict, [timestamp |-> "caller"], [book |-> "b", text |-> "old"]}

\* the metadata argument of add_text: None or a dictionary
MetadataArgs == {<<>>} \cup {<<d>> : d \in MetaDicts}

\* texts a caller stores
DbTexts == {"alpha", "beta"}

\* the texts argument of add_texts_batch: k texts, all different or all the same
BatchTexts ==
    UNION {{[i \in 1..k |-> "text" \o ToString(i)], [i \in 1..k |-> "alpha"]} :
           k \in 0..MaxBatch}

\* the metadatas argument of add_texts_batch for k texts: None, or k dictionaries
\* of which every second one brings its own timestamp, or a list one too short
BatchMetadataArgs(k) ==
    {<<>>,
     <<[i \in 1..k |-> IF i % 2 = 0 THEN [timestamp |-> "caller"] ELSE EmptyDict]>>}
    \cup (IF k >= 1 THEN {<<[i \in 1..(k - 1) |-> EmptyDict]>>} ELSE {})

\* the clock as read k times in a row: it stands still or ticks between reads
ClockReadings(k) ==
    {[i \in 1..k |-> clock],
     [i \in 1..k |-> IF clock + i - 1 <= MaxClock THEN clock + i - 1 ELSE MaxClock]}

LastReading(c) == IF Len(c) = 0 THEN clock ELSE c[Len(c)]

NoCall == [op |-> "none", ok |-> TRUE, texts |-> <<>>, metadata |-> <<>>,
           now |-> <<>>, ret |-> <<>>, pre |-> NoCollection]

otherVars == <<initPc, vector_db, llm, embeddings, qa_chain, web_ui, is_running,
               initialization_status, chat_history, ui_history, pc, req, resp>>

\* db.add_text(text, metadata)
DbAddText ==
    /\ host = "vector_db" /\ started < MaxCalls
    /\ \E text \in DbTexts, metadata \in MetadataArgs, nows \in ClockReadings(2) :
         LET r == AddText(collection, text, metadata, uuids, nows[2])
         IN  /\ collection' = r.coll
             /\ dbcall' = [op |-> "add_text", ok |-> r.ok, texts |-> <<text>>,
                           metadata |-> metadata, now |-> <<nows[2]>>,
                           ret |-> IF r.ok THEN <<r.ret>> ELSE <<>>, pre |-> collection]
             /\ clock' = nows[2]
    /\ uuids' = uuids + 1
    /\ started' = started + 1
    /\ UNCHANGED <<host, otherVars>>

\* db.add_texts_batch(texts, metadatas)
DbAddTextsBatch ==
    /\ host = "vector_db" /\ started < MaxCalls
    /\ \E texts \in BatchTexts :
       \E metadatas \in BatchMetadataArgs(Len(texts)), nows \in ClockReadings(Len(texts)) :
         LET r == AddTextsBatch(collection, texts, metadatas, uuids, nows)
         IN  /\ collection' = r.coll
             /\ dbcall' = [op |-> "add_texts_batch", ok |-> r.ok, texts |-> texts,
                           metadata |-> metadatas, now |-> nows,
                           ret |-> IF r.ok THEN r.ret ELSE <<>>, pre |-> collection]
             /\ uuids' = uuids + Len(r.ret)
             /\ clock' = LastReading(nows)
    /\ started' = started + 1
    /\ UNCHANGED <<host, otherVars>>

\* db.delete_collection()
DbDeleteCollection ==
    /\ host = "vector_db" /\ started < MaxCalls
    /\ collection' = IF collection.exists THEN DeleteCollection(collection) ELSE collection
    /\ dbcall' = [NoCall EXCEPT !.op = "delete_collection", !.ok = collection.exists,
                                !.pre = collection]
    /\ started' = started + 1
    /\ UNCHANGED <<host, uuids, clock, otherVars>>

\* db._create_collection_if_not_exists()
DbEnsureCollection ==
    /\ host = "vector_db" /\ started < MaxCalls
    /\ collection' = EnsureCollection(collection)
    /\ dbcall' = [NoCall EXCEPT !.op = "ensure_collection", !.pre = collection]
    /\ started' = started + 1
    /\ UNCHANGED <<host, uuids, clock, otherVars>>

\* vector_db.py run as a program: db = VectorDatabase(), then calls on db
InitDB ==
    /\ host = "vector_db"
    /\ collection \in InitCollections
    /\ uuids = TotalPoints(collection)
    /\ clock = 1
    /\ initPc = "done"
    /\ vector_db = "VectorDatabase"
    /\ llm = None /\ embeddings = None /\ qa_chain = None /\ web_ui = None
    /\ is_running = FALSE
    /\ initialization_status = InitialStatus
    /\ chat_history = <<>> /\ ui_history = <<>>
    /\ pc = [t \in Threads |-> "idle"]
    /\ req = [t \in Threads |-> NoReq]
    /\ resp = [t \in Threads |-> NoResp]
    /\ started = 0
    /\ dbcall = NoCall

NextDB ==
    \/ DbAddText
    \/ DbAddTextsBatch
    \/ DbDeleteCollection
    \/ DbEnsureCollection

SpecDB == InitDB /\ [][NextDB]_vars

(* --------------------------- api_backend.py --------------------------- *)

storeVars == <<collection, uuids, clock>>

\* the handler of thread t returns response r
Return(t, r) ==
    /\ resp' = [resp EXCEPT ![t] = r]
    /\ pc' = [pc EXCEPT ![t] = "idle"]

\* the handler of thread t goes on at statement l
Goto(t, l) ==
    /\ pc' = [pc EXCEPT ![t] = l]
    /\ UNCHANGED resp

(* initialize_components, the thread started at line 75 *)

\* a variant of InitOrder that reports ready before the QA chain is built
InitOrder_ReadyEarly ==
    <<"vector_db", "llm", "embeddings", "ready", "qa_chain", "print67", "done">>

\* the statements of the try block, lines 34-67, in program order
InitOrder ==
    <<"vector_db", "llm", "embeddings", "qa_chain", "ready", "print67", "done">>

\* the statement after statement `at`
NextInitPc(at) ==
    InitOrder[1 + CHOOSE i \in 1..(Len(InitOrder) - 1) : InitOrder[i] = at]

\* a variant of CanRaise in which the print of line 67 raises too
CanRaise_Print(at) == at \in {"vector_db", "llm", "embeddings", "qa_chain", "print67"}

\* the statements of the try block that can raise: the four constructions
CanRaise(at) == at \in {"vector_db", "llm", "embeddings", "qa_chain"}

\* lines 69-70: the except clause
ApiInitExcept ==
    /\ host = "api" /\ CanRaise(initPc)
    /\ \E e \in Exceptions : initialization_status' = ErrorStatus(e)
    /\ initPc' = "done"
    /\ UNCHANGED <<host, storeVars, compVars, chat_history, ui_history, pc, req,
                   resp, started, dbcall>>

\* line 39: vector_db = VectorDatabase(...), whose constructor ensures the collection
ApiInitVectorDb ==
    /\ host = "api" /\ initPc = "vector_db"
    /\ vector_db' = "VectorDatabase"
    /\ collection' = EnsureCollection(collection)
    /\ initPc' = NextInitPc("vector_db")
    /\ UNCHANGED <<host, uuids, clock, llm, embeddings, qa_chain, web_ui, is_running,
                   initialization_status, chat_history, ui_history, pc, req, resp,
                   started, dbcall>>

\* line 43: llm = OllamaLLM(...)
ApiInitLlm ==
    /\ host = "api" /\ initPc = "llm"
    /\ llm' = "OllamaLLM"
    /\ initPc' = NextInitPc("llm")
    /\ UNCHANGED <<host, storeVars, vector_db, embeddings, qa_chain, web_ui, is_running,
                   initialization_status, chat_history, ui_history, pc, req, resp,
                   started, dbcall>>

\* line 47: embeddings = HuggingFaceEmbeddings(...)
ApiInitEmbeddings ==
    /\ host = "api" /\ initPc = "embeddings"
    /\ embeddings' = "HuggingFaceEmbeddings"
    /\ initPc' = NextInitPc("embeddings")
    /\ UNCHANGED <<host, storeVars, vector_db, llm, qa_chain, web_ui, is_running,
                   initialization_status, chat_history, ui_history, pc, req, resp,
                   started, dbcall>>

\* lines 51-64: the retriever and qa_chain = RetrievalQA.from_chain_type(...)
ApiInitQaChain ==
    /\ host = "api" /\ initPc = "qa_chain"
    /\ qa_chain' = "RetrievalQA"
    /\ initPc' = NextInitPc("qa_chain")
    /\ UNCHANGED <<host, storeVars, vector_db, llm, embeddings, web_ui, is_running,
                   initialization_status, chat_history, ui_history, pc, req, resp,
                   started, dbcall>>

\* line 66: initialization_status = {"ready": True, ...}
ApiInitReady ==
    /\ host = "api" /\ initPc = "ready"
    /\ initialization_status' = ReadyStatus
    /\ initPc' = NextInitPc("ready")
    /\ UNCHANGED <<host, storeVars, compVars, chat_history, ui_history, pc, req,
                   resp, started, dbcall>>

\* line 67: the last print; the thread ends
ApiInitEnd ==
    /\ host = "api" /\ initPc = "print67"
    /\ initPc' = NextInitPc("print67")
    /\ UNCHANGED <<host, storeVars, compVars, initialization_status, chat_history,
                   ui_history, pc, req, resp, started, dbcall>>

ApiInit ==
    \/ ApiInitVectorDb
    \/ ApiInitLlm
    \/ ApiInitEmbeddings
    \/ ApiInitQaChain
    \/ ApiInitReady
    \/ ApiInitEnd
    \/ ApiInitExcept

(* the view functions *)

\* Flask hands a request to a free thread
ApiReceive(t) ==
    /\ host = "api" /\ pc[t] = "idle" /\ started < MaxRequests
    /\ \E op \in ApiOps :
       \E body \in IF op = "query" THEN Bodies ELSE {NoReq.body} :
         /\ req' = [req EXCEPT ![t] = [NoReq EXCEPT !.op = op, !.body = body]]
         /\ pc' = [pc EXCEPT ![t] = EntryPc(op)]
    /\ resp' = [resp EXCEPT ![t] = NoResp]
    /\ started' = started + 1
    /\ UNCHANGED <<host, storeVars, initPc, compVars, initialization_status,
                   chat_history, ui_history, dbcall>>

apiFrame == <<host, initPc, compVars, initialization_status, started, dbcall,
              ui_history>>

(* health_check, lines 78-85 *)

\* line 83: initialization_status['ready']
Health83(t) ==
    /\ pc[t] = "health83"
    /\ req' = [req EXCEPT ![t].ready = initialization_status.ready]
    /\ Goto(t, "health84")
    /\ UNCHANGED <<apiFrame, storeVars, chat_history>>

\* line 84: initialization_status['message'], and the response
Health84(t) ==
    /\ pc[t] = "health84"
    /\ Return(t, Json(200, [initialized |-> Bool(req[t].ready),
                            message |-> initialization_status.message]))
    /\ UNCHANGED <<apiFrame, storeVars, chat_history, req>>

(* query, lines 88-133 *)

\* a variant of QueryReady that asks for the store only, as capture does
QueryReady_Store(status) == vector_db # None

\* line 91: initialization_status['ready']
QueryReady(status) == status.ready

Query91(t) ==
    /\ pc[t] = "query91"
    /\ req' = [req EXCEPT ![t].ready = QueryReady(initialization_status)]
    /\ Goto(t, IF QueryReady(initialization_status) THEN "query97" ELSE "query94")
    /\ UNCHANGED <<apiFrame, storeVars, chat_history>>

\* lines 92-95: 503 with initialization_status['message']
Query94(t) ==
    /\ pc[t] = "query94"
    /\ Return(t, Json(503, [error |-> "System not ready yet",
                            message |-> initialization_status.message]))
    /\ UNCHANGED <<apiFrame, storeVars, chat_history, req>>

\* line 97: request.json raises for a body that is no JSON (415, or None and then
\* line 98 raises) or does not parse (400); line 98: data.get raises for JSON that
\* is not an object.  None of the two lines is inside the try block
ParseRaises(body) == body.kind # "object"

ParseRaisesCodes(body) ==
    CASE body.kind = "absent" -> {415, 500}
      [] body.kind = "malformed" -> {400}
      [] body.kind = "nonobject" -> {500}
      [] OTHER -> {}

\* line 98: data.get('query', '')
UserQuery(body) == DictGet(body.data, "query", "")

\* lines 97-101
Query97(t) ==
    /\ pc[t] = "query97"
    /\ IF ParseRaises(req[t].body)
       THEN /\ \E code \in ParseRaisesCodes(req[t].body) : Return(t, Escaped(code))
            /\ UNCHANGED req
       ELSE /\ req' = [req EXCEPT ![t].user_query = UserQuery(req[t].body)]
            /\ IF UserQuery(req[t].body) = ""
               THEN Return(t, Json(400, [error |-> "No query provided"]))
               ELSE Goto(t, "query105")
    /\ UNCHANGED <<apiFrame, storeVars, chat_history>>

\* search_kwargs={"k": 3}, line 57
RetrieverK == 3

\* response['source_documents'][:2], line 113
MaxSources == 2

\* doc.page_content[:150], line 115
SnippetLen == 150

\* len(text.strip()) < 10, line 146
MinTextLen == 10

\* the document the Qdrant vector store makes of a point: its content is the
\* payload's "text" (content_payload_key, line 55)
Document(coll, id) ==
    [page_content |-> coll.points[id].payload["text"],
     metadata |-> ("_id" :> ToString(id)) @@ ("_collection_name" :> "book_knowledge")]

\* rankings of the stored points by nearness to a query: the nearest is the
\* point stored first, or the point stored last
Rankings(ids) ==
    LET n == Cardinality(ids)
    IN  {[i \in 1..n |-> CHOOSE x \in ids : Cardinality({y \in ids : y < x}) = i - 1],
         [i \in 1..n |-> CHOOSE x \in ids : Cardinality({y \in ids : y > x}) = i - 1]}

\* what the retriever can return: the k nearest points, nearest first
Retrieved(coll) ==
    LET ids == DOMAIN coll.points
        k == IF Cardinality(ids) < RetrieverK THEN Cardinality(ids) ELSE RetrieverK
    IN  {[i \in 1..k |-> Document(coll, r[i])] : r \in Rankings(ids)}

\* lines 111-117: the sources of a response
Sources(docs) ==
    [i \in 1..(IF Len(docs) < MaxSources THEN Len(docs) ELSE MaxSources) |->
        [content |-> Prefix(docs[i].page_content, SnippetLen),
         metadata |-> docs[i].metadata]]

\* lines 103-117 and 129-133: qa_chain.invoke returns or raises
Query105(t) ==
    /\ pc[t] = "query105"
    /\ \/ /\ qa_chain # None
          /\ \E e \in Exceptions :
                Return(t, Json(500, [error |-> e, success |-> Bool(FALSE)]))
          /\ req' = [req EXCEPT ![t].invoked = @ + 1, ![t].raised = TRUE]
       \/ /\ qa_chain = None
          /\ Return(t, Json(500, [error |-> "'NoneType' object has no attribute 'invoke'",
                                  success |-> Bool(FALSE)]))
          /\ UNCHANGED req
       \/ /\ qa_chain # None /\ collection.exists
          /\ \E answer \in Answers, docs \in Retrieved(collection) :
                req' = [req EXCEPT ![t].invoked = @ + 1, ![t].answer = answer,
                                   ![t].docs = docs, ![t].sources = Sources(docs)]
          /\ Goto(t, "query120")
    /\ UNCHANGED <<apiFrame, storeVars, chat_history>>

\* line 120 (web_ui.py lines 61-64): {'role': 'user', 'content': user_query}
UserTurn(query) == [role |-> "user", content |-> query]

\* a variant of AssistantTurn that logs the answer as a system message
AssistantTurn_System(answer) == [role |-> "system", content |-> answer]

\* line 121 (web_ui.py lines 76-79): {'role': 'assistant', 'content': answer}
AssistantTurn(answer) == [role |-> "assistant", content |-> answer]

\* line 120: chat_history.append(user turn)
Query120(t) ==
    /\ pc[t] = "query120"
    /\ chat_history' = Append(chat_history, UserTurn(req[t].user_query))
    /\ Goto(t, "query121")
    /\ UNCHANGED <<apiFrame, storeVars, req>>

\* lines 121-127: chat_history.append(assistant turn), and the response
Query121(t) ==
    /\ pc[t] = "query121"
    /\ chat_history' = Append(chat_history, AssistantTurn(req[t].answer))
    /\ Return(t, Json(200, [response |-> req[t].answer, sources |-> req[t].sources,
                            success |-> Bool(TRUE)]))
    /\ UNCHANGED <<apiFrame, storeVars, req>>

(* capture_full_screen, lines 136-165 *)

\* a variant of StoreNotReady that lets every request through
StoreNotReady_Never == FALSE

\* line 139, 171, 204: if not vector_db
StoreNotReady == vector_db = None

Capture139(t) ==
    /\ pc[t] = "capture139"
    /\ IF StoreNotReady
       THEN Return(t, Json(503, [error |-> "Vector database not ready"]))
       ELSE Goto(t, "capture144")
    /\ UNCHANGED <<apiFrame, storeVars, chat_history, req>>

\* a variant of NoMeaningfulText that measures the text as extracted
NoMeaningfulText_Unstripped(text) == text = "" \/ Len(text) < MinTextLen

\* line 146: not text or len(text.strip()) < 10
NoMeaningfulText(text) == text = "" \/ Len(Strip(text)) < MinTextLen

\* lines 144-150: the capture and its text, or an error of the capture
Capture144(t) ==
    /\ pc[t] = "capture144"
    /\ \/ /\ \E e \in Exceptions :
                Return(t, Json(500, [success |-> Bool(FALSE), error |-> e]))
          /\ UNCHANGED req
       \/ \E text \in Texts :
            /\ req' = [req EXCEPT ![t].text = text]
            /\ IF NoMeaningfulText(text)
               THEN Return(t, Json(200, [success |-> Bool(FALSE),
                                         message |-> "No meaningful text found"]))
               ELSE Goto(t, "capture153")
    /\ UNCHANGED <<apiFrame, storeVars, chat_history>>

\* metadata={"source": "screenshot_full"}, line 153
CaptureMetadata == [source |-> "screenshot_full"]

\* line 153, vector_db.py lines 53-65: add_text encodes the text, draws the id and
\* builds the payload
Capture153(t) ==
    /\ pc[t] = "capture153"
    /\ req' = [req EXCEPT ![t].doc_id = AddTextId(collection, uuids)]
    /\ uuids' = uuids + 1
    /\ Goto(t, "addtext68")
    /\ UNCHANGED <<apiFrame, collection, clock, chat_history>>

\* the point a capture hands to upsert
CapturePoint(text, id, now) ==
    PointStruct(id, Encode(text), AddTextPayload(text, <<CaptureMetadata>>, now))

\* vector_db.py lines 68-79 and lines 155-165: the upsert, and the response
AddText68(t) ==
    /\ pc[t] = "addtext68"
    /\ LET u == Upsert(collection, <<CapturePoint(req[t].text, req[t].doc_id, clock)>>)
       IN  \/ /\ u.ok
              /\ collection' = u.coll
              /\ Return(t, Json(200, [success |-> Bool(TRUE),
                                      message |-> "Captured " \o ToString(Len(req[t].text))
                                                    \o " characters",
                                      text_length |-> Len(req[t].text)]))
           \/ /\ \E e \in Exceptions :
                    Return(t, Json(500, [success |-> Bool(FALSE), error |-> e]))
              /\ UNCHANGED collection
    /\ UNCHANGED <<apiFrame, uuids, clock, chat_history, req>>

(* get_stats, lines 168-184 *)

Stats171(t) ==
    /\ pc[t] = "stats171"
    /\ IF StoreNotReady
       THEN Return(t, Json(503, [error |-> "Vector database not ready"]))
       ELSE Goto(t, "stats175")
    /\ UNCHANGED <<apiFrame, storeVars, chat_history, req>>

\* lines 174-184: vector_db.get_stats()
Stats175(t) ==
    /\ pc[t] = "stats175"
    /\ \/ /\ collection.exists
          /\ Return(t, Json(200, [success |-> Bool(TRUE),
                                  total_points |-> TotalPoints(collection)]))
       \/ \E e \in Exceptions :
             Return(t, Json(500, [success |-> Bool(FALSE), error |-> e]))
    /\ UNCHANGED <<apiFrame, storeVars, chat_history, req>>

(* get_history and clear_history, lines 187-198 *)

History190(t) ==
    /\ pc[t] = "history190"
    /\ Return(t, Json(200, [history |-> chat_history]))
    /\ UNCHANGED <<apiFrame, storeVars, chat_history, req>>

\* a variant of ClearedHistory that drops the oldest entry only
ClearedHistory_Tail(history) == IF history = <<>> THEN history ELSE Tail(history)

\* line 197 (web_ui.py line 108): the log after chat_history = []
ClearedHistory(history) == <<>>

\* line 197: chat_history = []
History197(t) ==
    /\ pc[t] = "history197"
    /\ chat_history' = ClearedHistory(chat_history)
    /\ Return(t, Json(200, [success |-> Bool(TRUE)]))
    /\ UNCHANGED <<apiFrame, storeVars, req>>

(* clear_database, lines 201-218 *)

Clear204(t) ==
    /\ pc[t] = "clear204"
    /\ IF StoreNotReady
       THEN Return(t, Json(503, [error |-> "Vector database not ready"]))
       ELSE Goto(t, "clear208")
    /\ UNCHANGED <<apiFrame, storeVars, chat_history, req>>

\* line 208: vector_db.delete_collection().  Qdrant deletes the collection, or
\* raises; asked to delete a collection that is not there it answers without
\* deleting anything, or raises
Clear208(t) ==
    /\ pc[t] = "clear208"
    /\ \/ /\ collection' = DeleteCollection(collection)
          /\ req' = [req EXCEPT ![t].deleted = collection.exists]
          /\ Goto(t, "clear209")
       \/ /\ \E e \in Exceptions :
                Return(t, Json(500, [success |-> Bool(FALSE), error |-> e]))
          /\ UNCHANGED <<collection, req>>
    /\ UNCHANGED <<apiFrame, uuids, clock, chat_history>>

\* line 209, vector_db.py lines 34-37: get_collections and the membership test
Clear209(t) ==
    /\ pc[t] = "clear209"
    /\ \/ /\ req' = [req EXCEPT ![t].seen = collection.exists]
          /\ IF collection.exists
             THEN Return(t, Json(200, [success |-> Bool(TRUE),
                                       message |-> "Database cleared"]))
             ELSE Goto(t, "clear209create")
       \/ /\ \E e \in Exceptions :
                Return(t, Json(500, [success |-> Bool(FALSE), error |-> e]))
          /\ UNCHANGED req
    /\ UNCHANGED <<apiFrame, storeVars, chat_history>>

\* vector_db.py lines 39-45: create_collection, which fails if the collection
\* exists by now
Clear209Create(t) ==
    /\ pc[t] = "clear209create"
    /\ \/ /\ ~collection.exists
          /\ collection' = CreateCollection(EmbeddingDim, "Cosine")
          /\ Return(t, Json(200, [success |-> Bool(TRUE),
                                  message |-> "Database cleared"]))
       \/ /\ \E e \in Exceptions :
                Return(t, Json(500, [success |-> Bool(FALSE), error |-> e]))
          /\ UNCHANGED collection
    /\ UNCHANGED <<apiFrame, uuids, clock, chat_history, req>>

ApiHandle(t) ==
    \/ Health83(t) \/ Health84(t)
    \/ Query91(t) \/ Query94(t) \/ Query97(t) \/ Query105(t)
    \/ Query120(t) \/ Query121(t)
    \/ Capture139(t) \/ Capture144(t) \/ Capture153(t) \/ AddText68(t)
    \/ Stats171(t) \/ Stats175(t)
    \/ History190(t) \/ History197(t)
    \/ Clear204(t) \/ Clear208(t) \/ Clear209(t) \/ Clear209Create(t)

(* ----------------------- menubar_app.py, web_ui.py -------------------- *)

mbFrame == <<host, initialization_status, chat_history, started, dbcall>>

\* the programs that run a WebChatUI: menubar_app.py, and web_ui.py or
\* test_web_ui.py with a callback of their own
UiHosts == {"menubar", "web_ui"}

(* SecondBrainApp.initialize_components, the thread started at line 43 *)

\* lines 73-100 in program order
MbInitOrder ==
    <<"vector_db", "llm", "embeddings", "qa_chain", "web_ui", "templates",
      "start_server", "done">>

MbNextInitPc(at) ==
    MbInitOrder[1 + CHOOSE i \in 1..(Len(MbInitOrder) - 1) : MbInitOrder[i] = at]

\* lines 108-114: the except clause; it notifies and changes nothing
MbInitExcept ==
    /\ host = "menubar" /\ initPc # "done"
    /\ initPc' = "done"
    /\ UNCHANGED <<mbFrame, storeVars, compVars, ui_history, pc, req, resp>>

\* line 73: self.vector_db = VectorDatabase(...)
MbInitVectorDb ==
    /\ host = "menubar" /\ initPc = "vector_db"
    /\ vector_db' = "VectorDatabase"
    /\ collection' = EnsureCollection(collection)
    /\ initPc' = MbNextInitPc("vector_db")
    /\ UNCHANGED <<mbFrame, uuids, clock, llm, embeddings, qa_chain, web_ui,
                   is_running, ui_history, pc, req, resp>>

\* line 76: self.llm = OllamaLLM(...)
MbInitLlm ==
    /\ host = "menubar" /\ initPc = "llm"
    /\ llm' = "OllamaLLM"
    /\ initPc' = MbNextInitPc("llm")
    /\ UNCHANGED <<mbFrame, storeVars, vector_db, embeddings, qa_chain, web_ui,
                   is_running, ui_history, pc, req, resp>>

\* line 79: self.embeddings = HuggingFaceEmbeddings(...)
MbInitEmbeddings ==
    /\ host = "menubar" /\ initPc = "embeddings"
    /\ embeddings' = "HuggingFaceEmbeddings"
    /\ initPc' = MbNextInitPc("embeddings")
    /\ UNCHANGED <<mbFrame, storeVars, vector_db, llm, qa_chain, web_ui,
                   is_running, ui_history, pc, req, resp>>

\* lines 82-95: self.qa_chain = RetrievalQA.from_chain_type(...)
MbInitQaChain ==
    /\ host = "menubar" /\ initPc = "qa_chain"
    /\ qa_chain' = "RetrievalQA"
    /\ initPc' = MbNextInitPc("qa_chain")
    /\ UNCHANGED <<mbFrame, storeVars, vector_db, llm, embeddings, web_ui,
                   is_running, ui_history, pc, req, resp>>

\* line 98: self.web_ui = WebChatUI(on_query_callback=self.handle_query, ...)
MbInitWebUi ==
    /\ host = "menubar" /\ initPc = "web_ui"
    /\ web_ui' = "WebChatUI"
    /\ ui_history' = <<>>
    /\ initPc' = MbNextInitPc("web_ui")
    /\ UNCHANGED <<mbFrame, storeVars, vector_db, llm, embeddings, qa_chain,
                   is_running, pc, req, resp>>

\* line 99: self.web_ui.ensure_templates_dir()
MbInitTemplates ==
    /\ host \in UiHosts /\ initPc = "templates"
    /\ initPc' = MbNextInitPc("templates")
    /\ UNCHANGED <<mbFrame, storeVars, compVars, ui_history, pc, req, resp>>

\* line 100, web_ui.py lines 132-150: start_server
MbInitStartServer ==
    /\ host \in UiHosts /\ initPc = "start_server"
    /\ is_running' = TRUE
    /\ initPc' = MbNextInitPc("start_server")
    /\ UNCHANGED <<mbFrame, storeVars, vector_db, llm, embeddings, qa_chain, web_ui,
                   ui_history, pc, req, resp>>

MbInit ==
    \/ MbInitVectorDb
    \/ MbInitLlm
    \/ MbInitEmbeddings
    \/ MbInitQaChain
    \/ MbInitWebUi
    \/ MbInitTemplates
    \/ MbInitStartServer
    \/ MbInitExcept

uiFrame == <<mbFrame, initPc, compVars>>

\* the routes of the web chat UI
UiOps == {"ui_query", "ui_clear"}

\* the web UI's server hands a request to a free thread
UiReceive(t) ==
    /\ host \in UiHosts /\ is_running /\ pc[t] = "idle" /\ started < MaxRequests
    /\ \E op \in UiOps :
       \E body \in IF op = "ui_query" THEN Bodies ELSE {NoReq.body} :
         /\ req' = [req EXCEPT ![t] = [NoReq EXCEPT !.op = op, !.body = body]]
         /\ pc' = [pc EXCEPT ![t] = EntryPc(op)]
    /\ resp' = [resp EXCEPT ![t] = NoResp]
    /\ started' = started + 1
    /\ UNCHANGED <<host, initialization_status, chat_history, dbcall, initPc,
                   compVars, storeVars, ui_history>>

\* handle_query is a public method: a caller other than the web UI calls it
HqCall(t) ==
    /\ host = "menubar" /\ pc[t] = "idle" /\ started < MaxRequests
    /\ \E query \in Queries :
         req' = [req EXCEPT ![t] = [NoReq EXCEPT !.op = "handle_query",
                                                 !.user_query = query]]
    /\ pc' = [pc EXCEPT ![t] = EntryPc("handle_query")]
    /\ resp' = [resp EXCEPT ![t] = NoResp]
    /\ started' = started + 1
    /\ UNCHANGED <<host, initialization_status, chat_history, dbcall, initPc,
                   compVars, storeVars, ui_history>>

\* web_ui.py lines 53-58
Ui53(t) ==
    /\ pc[t] = "ui53"
    /\ IF ParseRaises(req[t].body)
       THEN /\ \E code \in ParseRaisesCodes(req[t].body) : Return(t, Escaped(code))
            /\ UNCHANGED req
       ELSE /\ req' = [req EXCEPT ![t].user_query = UserQuery(req[t].body)]
            /\ IF UserQuery(req[t].body) = ""
               THEN Return(t, Json(400, [error |-> "No query provided"]))
               ELSE Goto(t, "ui61")
    /\ UNCHANGED <<uiFrame, storeVars, ui_history>>

\* self.on_query_callback: handle_query in the menu-bar host (menubar_app.py
\* line 98), a function of the caller otherwise
Callback == IF host = "menubar" THEN "handle_query" ELSE "callback"

\* web_ui.py lines 61-64: the user turn; line 69 calls the callback
Ui61(t) ==
    /\ pc[t] = "ui61"
    /\ ui_history' = Append(ui_history, UserTurn(req[t].user_query))
    /\ Goto(t, EntryPc(Callback))
    /\ UNCHANGED <<uiFrame, storeVars, req>>

\* web_ui.py line 90: f"Error: {str(e)}"
ErrorMsg(e) == "Error: " \o e

\* web_ui.py lines 69 and 86-90: a callback of the caller returns a text or raises
UiCallback69(t) ==
    /\ pc[t] = "cb69"
    /\ \/ \E result \in Answers :
            /\ req' = [req EXCEPT ![t].invoked = @ + 1, ![t].answer = result]
            /\ Goto(t, "ui76")
       \/ \E e \in Exceptions :
            /\ req' = [req EXCEPT ![t].invoked = @ + 1, ![t].raised = TRUE,
                                  ![t].answer = ErrorMsg(e)]
            /\ Goto(t, "ui91")
    /\ UNCHANGED <<uiFrame, storeVars, ui_history>>

\* handle_query returns text to its caller: the web UI goes on at line 76, another
\* caller has the text
HqReturn(t, text) ==
    /\ req' = [req EXCEPT ![t].answer = text]
    /\ IF req[t].op = "ui_query"
       THEN Goto(t, "ui76")
       ELSE Return(t, [NoResp EXCEPT !.response = text])

\* menubar_app.py lines 315-316 (the emoji of the texts are left out)
NotInitializedText == "RAG system is not initialized yet. Please wait..."

Hq315(t) ==
    /\ pc[t] = "hq315"
    /\ IF qa_chain = None
       THEN HqReturn(t, NotInitializedText)
       ELSE Goto(t, "hq319") /\ UNCHANGED req
    /\ UNCHANGED <<uiFrame, storeVars, ui_history>>

\* str.replace('\n', ' ')
RECURSIVE ReplaceNewlines(_)
ReplaceNewlines(s) ==
    IF Len(s) = 0 THEN s
    ELSE IF Len(s) = 1 THEN (IF s = "\n" THEN " " ELSE s)
    ELSE LET half == Len(s) \div 2
         IN  ReplaceNewlines(SubSeq(s, 1, half))
             \o ReplaceNewlines(SubSeq(s, half + 1, Len(s)))

\* menubar_app.py lines 327-329, from the i-th source document on
RECURSIVE SourceLines(_, _)
SourceLines(docs, i) ==
    IF i > Len(docs) \/ i > MaxSources THEN ""
    ELSE "\n" \o ToString(i) \o ". "
         \o ReplaceNewlines(Prefix(docs[i].page_content, SnippetLen)) \o "..."
         \o SourceLines(docs, i + 1)

\* menubar_app.py lines 322-331
FormatAnswer(result, docs) ==
    IF Len(docs) > 0
    THEN result \o "\n\nSources:\n" \o SourceLines(docs, 1)
    ELSE result

\* menubar_app.py lines 333-334
QueryErrorText(e) == "Error processing query: " \o e

\* menubar_app.py lines 319-334: qa_chain.invoke returns or raises; the except
\* clause returns the error as text
Hq319(t) ==
    /\ pc[t] = "hq319"
    /\ \/ \E e \in Exceptions :
            /\ req' = [req EXCEPT ![t].invoked = @ + 1, ![t].raised = TRUE,
                                  ![t].answer = QueryErrorText(e)]
            /\ IF req[t].op = "ui_query"
               THEN Goto(t, "ui76")
               ELSE Return(t, [NoResp EXCEPT !.response = QueryErrorText(e)])
       \/ /\ collection.exists
          /\ \E result \in Answers, docs \in Retrieved(collection) :
               /\ req' = [req EXCEPT ![t].invoked = @ + 1,
                                     ![t].answer = FormatAnswer(result, docs)]
               /\ IF req[t].op = "ui_query"
                  THEN Goto(t, "ui76")
                  ELSE Return(t, [NoResp EXCEPT !.response = FormatAnswer(result, docs)])
    /\ UNCHANGED <<uiFrame, storeVars, ui_history>>

\* web_ui.py lines 76-84: the assistant turn, and the response
Ui76(t) ==
    /\ pc[t] = "ui76"
    /\ ui_history' = Append(ui_history, AssistantTurn(req[t].answer))
    /\ Return(t, Json(200, [response |-> req[t].answer, success |-> Bool(TRUE)]))
    /\ UNCHANGED <<uiFrame, storeVars, req>>

\* web_ui.py lines 125-130: {'role': 'system', 'content': message}
SystemTurn(message) == [role |-> "system", content |-> message]

\* web_ui.py lines 91-98: the system entry, and the response
Ui91(t) ==
    /\ pc[t] = "ui91"
    /\ ui_history' = Append(ui_history, SystemTurn(req[t].answer))
    /\ Return(t, Json(500, [response |-> req[t].answer, success |-> Bool(FALSE)]))
    /\ UNCHANGED <<uiFrame, storeVars, req>>

\* web_ui.py lines 105-109: POST /api/clear
Ui108(t) ==
    /\ pc[t] = "ui108"
    /\ ui_history' = ClearedHistory(ui_history)
    /\ Return(t, Json(200, [success |-> Bool(TRUE)]))
    /\ UNCHANGED <<uiFrame, storeVars, req>>

(* the menu items, menubar_app.py lines 130-186 and 254-288 *)

\* the menu items that reach the knowledge store
MbOps == {"mb_capture", "mb_clear_database"}

\* the user clicks a menu item; rumps runs the click handlers one at a time
MbClick(t) ==
    /\ host = "menubar" /\ pc[t] = "idle" /\ started < MaxRequests
    /\ \E op \in MbOps :
         /\ op = "mb_clear_database" =>
               \A u \in Threads : req[u].op = "mb_clear_database" => pc[u] = "idle"
         /\ req' = [req EXCEPT ![t] = [NoReq EXCEPT !.op = op]]
         /\ pc' = [pc EXCEPT ![t] = EntryPc(op)]
    /\ resp' = [resp EXCEPT ![t] = NoResp]
    /\ started' = started + 1
    /\ UNCHANGED <<host, initialization_status, chat_history, dbcall, initPc,
                   compVars, storeVars, ui_history>>

\* rumps.alert / rumps.notification: what the user is told
Notice(success, subtitle, n) ==
    [NoResp EXCEPT !.success = Bool(success), !.message = subtitle,
                   !.text_length = n]

\* lines 133-139
MbCapture133(t) ==
    /\ pc[t] = "mbcap133"
    /\ IF StoreNotReady
       THEN Return(t, Notice(FALSE, "Not Ready", -1))
       ELSE Goto(t, "mbcap152")
    /\ UNCHANGED <<uiFrame, storeVars, ui_history, req>>

\* lines 152-160 and 178-184, in the thread started at line 186
MbCapture152(t) ==
    /\ pc[t] = "mbcap152"
    /\ \/ /\ Return(t, Notice(FALSE, "Capture Failed", -1))
          /\ UNCHANGED req
       \/ \E text \in Texts :
            /\ req' = [req EXCEPT ![t].text = text]
            /\ IF NoMeaningfulText(text)
               THEN Return(t, Notice(FALSE, "No Text Found", -1))
               ELSE Goto(t, "mbcap163")
    /\ UNCHANGED <<uiFrame, storeVars, ui_history>>

\* line 163, vector_db.py lines 53-65
MbCapture163(t) ==
    /\ pc[t] = "mbcap163"
    /\ req' = [req EXCEPT ![t].doc_id = AddTextId(collection, uuids)]
    /\ uuids' = uuids + 1
    /\ Goto(t, "mbaddtext68")
    /\ UNCHANGED <<uiFrame, collection, clock, ui_history>>

\* vector_db.py lines 68-79, and lines 178-184 if the upsert raises
MbAddText68(t) ==
    /\ pc[t] = "mbaddtext68"
    /\ LET u == Upsert(collection, <<CapturePoint(req[t].text, req[t].doc_id, clock)>>)
       IN  \/ /\ u.ok
              /\ collection' = u.coll
              /\ Goto(t, "mbcap166")
           \/ /\ Return(t, Notice(FALSE, "Capture Failed", -1))
              /\ UNCHANGED collection
    /\ UNCHANGED <<uiFrame, uuids, clock, ui_history, req>>

\* lines 166-176: the notification, and the system message if the web UI is there
MbCapture166(t) ==
    /\ pc[t] = "mbcap166"
    /\ ui_history' =
          IF web_ui # None
          THEN Append(ui_history,
                      SystemTurn("Captured and stored " \o ToString(Len(req[t].text))
                                   \o " characters from screenshot"))
          ELSE ui_history
    /\ Return(t, Notice(TRUE, "Text Captured!", Len(req[t].text)))
    /\ UNCHANGED <<uiFrame, storeVars, req>>

\* lines 257-272: the check, and the user's answer to the alert
MbClear257(t) ==
    /\ pc[t] = "mbclear257"
    /\ IF StoreNotReady
       THEN Return(t, Notice(FALSE, "Not Ready", -1))
       ELSE \/ Return(t, Notice(FALSE, "Cancel", -1))
            \/ Goto(t, "mbclear274")
    /\ UNCHANGED <<uiFrame, storeVars, ui_history, req>>

\* line 274: self.vector_db.delete_collection()
MbClear274(t) ==
    /\ pc[t] = "mbclear274"
    /\ \/ /\ collection' = DeleteCollection(collection)
          /\ req' = [req EXCEPT ![t].deleted = collection.exists]
          /\ Goto(t, "mbclear276")
       \/ /\ Return(t, Notice(FALSE, "Error", -1))
          /\ UNCHANGED <<collection, req>>
    /\ UNCHANGED <<uiFrame, uuids, clock, ui_history>>

\* line 276: self.vector_db._create_collection_if_not_exists()
MbClear276(t) ==
    /\ pc[t] = "mbclear276"
    /\ \/ /\ collection' = EnsureCollection(collection)
          /\ Return(t, Notice(TRUE, "Database Cleared", -1))
       \/ /\ Return(t, Notice(FALSE, "Error", -1))
          /\ UNCHANGED collection
    /\ UNCHANGED <<uiFrame, uuids, clock, ui_history, req>>

MbHandle(t) ==
    \/ Ui53(t) \/ Ui61(t) \/ Hq315(t) \/ Hq319(t) \/ Ui76(t)
    \/ Ui108(t) \/ UiCallback69(t) \/ Ui91(t)
    \/ MbCapture133(t) \/ MbCapture152(t) \/ MbCapture163(t) \/ MbAddText68(t)
    \/ MbCapture166(t)
    \/ MbClear257(t) \/ MbClear274(t) \/ MbClear276(t)

(* ------------------------------- Spec --------------------------------- *)

\* the collection as an earlier run of the program left it: none, or one that
\* holds the points of that run
StoredCollections ==
    {NoCollection,
     [CreateCollection(EmbeddingDim, "Cosine") EXCEPT
         !.points = [id \in 1..MaxInitPoints |-> OldPoint]]}

Init ==
    /\ host \in {"api", "menubar", "web_ui"}
    /\ collection \in IF host = "web_ui" THEN {NoCollection} ELSE StoredCollections
    /\ uuids = TotalPoints(collection)
    /\ clock = 1
    /\ initPc = IF host = "web_ui" THEN "templates" ELSE "vector_db"
    /\ vector_db = None /\ llm = None /\ embeddings = None /\ qa_chain = None
    /\ web_ui = IF host = "web_ui" THEN "WebChatUI" ELSE None
    /\ is_running = FALSE
    /\ initialization_status = InitialStatus
    /\ chat_history = <<>> /\ ui_history = <<>>
    /\ pc = [t \in Threads |-> "idle"]
    /\ req = [t \in Threads |-> NoReq]
    /\ resp = [t \in Threads |-> NoResp]
    /\ started = 0
    /\ dbcall = NoCall

Next ==
    \/ ApiInit
    \/ \E t \in Threads : ApiReceive(t)
    \/ \E t \in Threads : ApiHandle(t)
    \/ MbInit
    \/ \E t \in Threads : UiReceive(t) \/ HqCall(t) \/ MbClick(t)
    \/ \E t \in Threads : MbHandle(t)

Spec == Init /\ [][Next]_vars

(* ---------------------- claims about vector_db.py --------------------- *)

\* C9: when add_text(text, metadata) returns, the collection holds exactly one
\* point more; the id returned is the id of that point and was not stored before;
\* its payload is the caller's metadata with "text" set to the text and
\* "timestamp" set to the caller's timestamp if there was one and to the time of
\* the call otherwise; every point stored before is unchanged.
C9_AddTextAddsOnePoint ==
    (dbcall.op = "add_text" /\ dbcall.ok) =>
        LET before == dbcall.pre.points
            after == collection.points
            given == IF dbcall.metadata = <<>> THEN <<>> ELSE dbcall.metadata[1]
            id == dbcall.ret[1]
        IN  /\ Len(dbcall.ret) = 1
            /\ id \notin DOMAIN before
            /\ DOMAIN after = (DOMAIN before) \cup {id}
            /\ Cardinality(DOMAIN after) = Cardinality(DOMAIN before) + 1
            /\ DOMAIN after[id].payload = (DOMAIN given) \cup {"text", "timestamp"}
            /\ after[id].payload["text"] = dbcall.texts[1]
            /\ after[id].payload["timestamp"] =
                   IF "timestamp" \in DOMAIN given
                   THEN given["timestamp"]
                   ELSE IsoFormat(dbcall.now[1])
            /\ \A k \in (DOMAIN given) \ {"text", "timestamp"} :
                   after[id].payload[k] = given[k]
            /\ \A old \in DOMAIN before : after[old] = before[old]

\* C9 witness: add_text has returned for a caller who supplied a timestamp, on a
\* collection that already held a point
C9_Witness ==
    /\ dbcall.op = "add_text" /\ dbcall.ok
    /\ dbcall.metadata # <<>>
    /\ "timestamp" \in DOMAIN dbcall.metadata[1]
    /\ DOMAIN dbcall.pre.points # {}
    /\ DOMAIN collection.points # DOMAIN dbcall.pre.points

\* C10: when add_texts_batch(texts, metadatas) returns for n texts, with metadatas
\* absent or of length n, it returns n ids, pairwise distinct and none of them
\* stored before, the collection holds exactly n points more, and the point under
\* the i-th id holds the i-th text.
C10_BatchAddsNPoints ==
    (/\ dbcall.op = "add_texts_batch" /\ dbcall.ok
     /\ (dbcall.metadata = <<>> \/ Len(dbcall.metadata[1]) = Len(dbcall.texts))) =>
        LET before == dbcall.pre.points
            after == collection.points
            n == Len(dbcall.texts)
            ids == dbcall.ret
        IN  /\ Len(ids) = n
            /\ \A i \in 1..n : \A j \in 1..n : i # j => ids[i] # ids[j]
            /\ \A i \in 1..n : ids[i] \notin DOMAIN before
            /\ Cardinality(DOMAIN after) = Cardinality(DOMAIN before) + n
            /\ \A i \in 1..n : /\ ids[i] \in DOMAIN after
                               /\ after[ids[i]].payload["text"] = dbcall.texts[i]

\* C10 witness: a batch of at least two different texts without metadatas has
\* been added to a collection that already held a point
C10_Witness ==
    /\ dbcall.op = "add_texts_batch" /\ dbcall.ok
    /\ dbcall.metadata = <<>>
    /\ Len(dbcall.texts) >= 2
    /\ dbcall.texts[1] # dbcall.texts[2]
    /\ DOMAIN dbcall.pre.points # {}
    /\ Len(dbcall.ret) = Len(dbcall.texts)

\* C11 as claimed: when add_texts_batch is called without metadatas, every text
\* has a default empty metadata of its own: the payload of the i-th point is what
\* stamping an empty dictionary at iteration i gives, its own text and the time
\* of its own iteration, whatever was stamped for the other records.
C11_BatchDefaultsIndependent ==
    (dbcall.op = "add_texts_batch" /\ dbcall.ok /\ dbcall.metadata = <<>>) =>
        \A i \in 1..Len(dbcall.texts) :
            collection.points[dbcall.ret[i]].payload =
                BatchStamp(EmptyDict, dbcall.texts[i], dbcall.now[i])

\* C12: whatever the collection held, when delete_collection is followed by
\* _create_collection_if_not_exists the collection exists afterwards, holds no
\* point, and has the embedding model's dimension and cosine distance.
C12_DeleteThenEnsureIsEmpty ==
    [][(dbcall.op = "delete_collection" /\ dbcall'.op = "ensure_collection") =>
          collection' = [exists |-> TRUE, size |-> EmbeddingDim,
                         distance |-> "Cosine", points |-> <<>>]]_vars

\* C12 witness: a collection that held a point was deleted and ensured, and is
\* there again without the point
C12_Witness ==
    /\ dbcall.op = "ensure_collection" /\ ~dbcall.pre.exists
    /\ uuids > 0
    /\ collection.exists /\ TotalPoints(collection) = 0

\* C13: _create_collection_if_not_exists does not fail and leaves an existing
\* collection; when the collection existed before the call nothing has changed
\* (points, dimension and metric are the same); a second call right after the
\* first changes nothing.
C13_EnsureIsIdempotent ==
    /\ [](dbcall.op = "ensure_collection" =>
            /\ dbcall.ok
            /\ collection.exists
            /\ dbcall.pre.exists => collection = dbcall.pre)
    /\ [][(dbcall.op = "ensure_collection" /\ dbcall'.op = "ensure_collection") =>
            collection' = collection]_vars

\* C13 witness: the collection was ensured while it held a point stored by the
\* call before, and still holds it
C13_Witness ==
    /\ dbcall.op = "ensure_collection" /\ dbcall.pre.exists
    /\ started = 2
    /\ \E id \in DOMAIN collection.points : collection.points[id] # OldPoint

\* C14: in every step, every record of the collection is in the collection
\* afterwards, with the same vector and payload, unless the step deletes the
\* collection: no operation updates, overwrites or removes a stored record.
C14_RecordsAreImmutable ==
    [][\A id \in DOMAIN collection.points :
          \/ ~collection'.exists
          \/ /\ id \in DOMAIN collection'.points
             /\ collection'.points[id] = collection.points[id]]_vars

\* C14 witness: a record stored by one call is still there, unchanged, after a
\* batch was added by the next call
C14_Witness ==
    /\ dbcall.op = "add_texts_batch" /\ dbcall.ok /\ Len(dbcall.ret) >= 1
    /\ \E id \in DOMAIN dbcall.pre.points :
          /\ dbcall.pre.points[id] # OldPoint
          /\ id \in DOMAIN collection.points
          /\ collection.points[id] = dbcall.pre.points[id]

(* ------------------- claims about the two hosts (Spec) ---------------- *)

\* the requests of kind `ops` whose handler has returned
Answered(t, ops) == req[t].op \in ops /\ pc[t] = "idle"

\* the status values initialize_components can set
FinalStatuses == {ReadyStatus} \cup {ErrorStatus(e) : e \in Exceptions}

\* C1: as long as initialization has not completed successfully (ready = false:
\* still initializing, or failed), no /api/query handler is past its readiness
\* check except on the 503 path, none has invoked the QA chain, and every one that
\* has answered answered 503 "System not ready yet"; a handler that read
\* ready = false answers 503 without invoking even if initialization completes
\* meanwhile.  In the menu-bar host, while qa_chain is unset no handle_query call
\* has invoked the chain, and a direct call returns the not-initialized text.
C1_NotReadyNeverInvokes ==
    /\ host = "api" =>
         \A t \in Threads : req[t].op = "query" =>
            /\ ~initialization_status.ready =>
                  /\ pc[t] \in {"query91", "query94", "idle"}
                  /\ req[t].invoked = 0
                  /\ pc[t] = "idle" => /\ resp[t].code = 503
                                       /\ resp[t].error = "System not ready yet"
            /\ (pc[t] \in {"query94", "idle"} /\ ~req[t].ready) =>
                  /\ req[t].invoked = 0
                  /\ pc[t] = "idle" => resp[t].code = 503
            /\ req[t].invoked <= 1
    /\ host = "menubar" =>
         \A t \in Threads :
            (req[t].op \in {"handle_query", "ui_query"} /\ qa_chain = None) =>
                /\ req[t].invoked = 0
                /\ pc[t] # "hq319"
                /\ Answered(t, {"handle_query"}) => resp[t].response = NotInitializedText

\* C1 witness: initialization has failed and a query was answered 503 after that,
\* with the failure's message
C1_Witness ==
    /\ host = "api" /\ initPc = "done" /\ ~initialization_status.ready
    /\ \E t \in Threads : /\ Answered(t, {"query"})
                          /\ resp[t].code = 503
                          /\ resp[t].message = initialization_status.message
                          /\ req[t].body.kind = "object"
                          /\ UserQuery(req[t].body) # ""

\* C2: every change of initialization_status is the one change from the initial
\* value to READY or to FAILED with an error message; so it changes at most once,
\* READY never reverts and FAILED is never retried.
C2_StatusChangesOnce ==
    [][initialization_status' # initialization_status =>
          /\ initialization_status = InitialStatus
          /\ initialization_status' \in FinalStatuses
          /\ initialization_status' # InitialStatus]_vars

\* C2 witness: the status is final and a database clear has been answered since
C2_Witness ==
    /\ host = "api" /\ initPc = "done"
    /\ initialization_status \in FinalStatuses
    /\ \E t \in Threads : Answered(t, {"clear_database"}) /\ resp[t].code = 200

\* all four components are initialized
AllInitialized ==
    vector_db # None /\ llm # None /\ embeddings # None /\ qa_chain # None

\* C3: in the API backend ready = true implies that vector_db, llm, embeddings and
\* qa_chain are all set, and a query handler past its readiness check finds them
\* all set.
C3_ReadyImpliesAllInitialized ==
    host = "api" =>
        /\ initialization_status.ready => AllInitialized
        /\ \A t \in Threads :
              (\/ pc[t] \in {"query97", "query105", "query120", "query121"}
               \/ req[t].invoked > 0
               \/ (Answered(t, {"query"}) /\ resp[t].code # 503)) => AllInitialized

\* C3 witness: the backend is ready and has served a query
C3_Witness ==
    /\ host = "api" /\ initialization_status.ready
    /\ \E t \in Threads : Answered(t, {"query"}) /\ resp[t].code = 200

\* C4 as claimed: a capture answered while the state is not READY was answered 503,
\* and no capture is past its check while the state is not READY.
C4_CaptureOnlyWhenReady ==
    (host = "api" /\ ~initialization_status.ready) =>
        \A t \in Threads : req[t].op = "capture" =>
            /\ pc[t] \in {"capture139", "idle"}
            /\ pc[t] = "idle" => resp[t].code = 503

\* C4 amended: capture-storage is unlocked by the knowledge store alone: a capture
\* is past its check only when vector_db is set (which READY implies, and which
\* also holds while the other components are loading and after their failure);
\* while vector_db is unset a capture is answered 503 and nothing has been stored.
C4_CaptureOnlyWhenStoreSet ==
    host = "api" =>
        /\ initialization_status.ready => vector_db # None
        /\ vector_db = None =>
              /\ \A t \in Threads : req[t].op = "capture" =>
                    /\ pc[t] \in {"capture139", "idle"}
                    /\ pc[t] = "idle" => resp[t].code = 503
              /\ uuids = TotalPoints(collection)
              /\ collection \in StoredCollections

\* C4 witness: a capture has stored a record although initialization failed
C4_Witness ==
    /\ host = "api" /\ initPc = "done" /\ ~initialization_status.ready
    /\ \E t \in Threads : /\ Answered(t, {"capture"})
                          /\ resp[t].success = "true"
                          /\ TotalPoints(collection) > 0

\* the query field of a body is missing or empty
QueryMissing(body) ==
    \/ body.kind # "object"
    \/ "query" \notin DOMAIN body.data
    \/ body.data["query"] = ""

\* C5 as claimed: an answered /api/query has one of four outcomes: 503 if its
\* readiness check failed; else 400, without invoking the chain, if the query
\* field is missing or empty; else 500 with success=false if the chain raised;
\* else 200 with success=true, the answer and the sources.
C5_QueryOutcomes ==
    \A t \in Threads : Answered(t, {"query"}) =>
        IF ~req[t].ready
        THEN resp[t].code = 503
        ELSE IF QueryMissing(req[t].body)
        THEN resp[t].code = 400 /\ req[t].invoked = 0
        ELSE IF req[t].raised
        THEN resp[t].code = 500 /\ resp[t].success = "false"
        ELSE /\ resp[t].code = 200 /\ resp[t].success = "true"
             /\ resp[t].response = req[t].answer
             /\ resp[t].sources = req[t].sources

\* C6 as claimed: no exception leaves the query handler of the API backend or of
\* the web chat UI: every answer that is not a success is a payload with a message.
C6_NoExceptionEscapes ==
    \A t \in Threads : Answered(t, {"query", "ui_query"}) =>
        /\ ~resp[t].escaped
        /\ resp[t].code # 200 => resp[t].error # ""

\* C7 as claimed: when the chain raised while answering, the HTTP response carries
\* success=false and an error string, in the API backend and in the web chat UI.
C7_PipelineFailureIsReported ==
    \A t \in Threads : (Answered(t, {"query", "ui_query"}) /\ req[t].raised) =>
        /\ resp[t].success = "false"
        /\ resp[t].error # "" \/ resp[t].response # ""

\* C8 as claimed: the (initialized, message) pair of a health response is the
\* status as it was at one instant: one of the values the status takes.
C8_HealthIsOneStatus ==
    \A t \in Threads : Answered(t, {"health"}) =>
        [ready |-> resp[t].initialized = "true", message |-> resp[t].message]
            \in {InitialStatus} \cup FinalStatuses

\* the capture of thread t has drawn the id of its record
HasDrawn(t) == req[t].op = "capture" /\ req[t].doc_id # 0

\* C15: two captures that run concurrently never conflict: the ids they draw are
\* different; the upsert of a capture is accepted whenever the collection exists,
\* whatever the other capture has done, and its id is not yet stored then; the
\* step in which a capture stores adds exactly the record under its own id and
\* changes no other record, so that two captures that succeed add exactly two.
C15_ConcurrentCapturesDoNotConflict ==
    /\ [](host = "api" =>
            /\ \A t \in Threads : \A u \in Threads :
                  (t # u /\ HasDrawn(t) /\ HasDrawn(u)) => req[t].doc_id # req[u].doc_id
            /\ \A t \in Threads : (pc[t] = "addtext68" /\ collection.exists) =>
                  /\ req[t].doc_id \notin DOMAIN collection.points
                  /\ Upsert(collection,
                            <<CapturePoint(req[t].text, req[t].doc_id, clock)>>).ok)
    /\ [][\A t \in Threads :
            (pc[t] = "addtext68" /\ pc'[t] = "idle" /\ resp'[t].success = "true") =>
                /\ DOMAIN collection'.points =
                       (DOMAIN collection.points) \cup {req[t].doc_id}
                /\ TotalPoints(collection') = TotalPoints(collection) + 1
                /\ \A id \in DOMAIN collection.points :
                       collection'.points[id] = collection.points[id]]_vars

\* C15 witness: two captures ran concurrently: one drew its id after the other and
\* has stored its record while the other is yet to upsert
C15_Witness ==
    /\ host = "api"
    /\ \E t \in Threads : \E u \in Threads :
          /\ Answered(t, {"capture"}) /\ resp[t].success = "true"
          /\ pc[u] = "addtext68" /\ HasDrawn(u)
          /\ req[t].doc_id > req[u].doc_id
          /\ req[t].doc_id \in DOMAIN collection.points

\* C16: the step in which a history clear answers, DELETE /api/history of the API
\* backend or POST /api/clear of the web chat UI, answers 200 with success=true
\* and leaves that log empty, whether it held entries or was empty already, and
\* changes neither the initialization status, nor the component handles, nor the
\* knowledge store.
C16_HistoryClearIsIdempotent ==
    [][\A t \in Threads :
          (pc[t] \in {"history197", "ui108"} /\ pc'[t] = "idle") =>
              /\ resp'[t].code = 200 /\ resp'[t].success = "true"
              /\ pc[t] = "history197" => chat_history' = <<>>
              /\ pc[t] = "ui108" => ui_history' = <<>>
              /\ initialization_status' = initialization_status
              /\ collection' = collection
              /\ compVars' = compVars]_vars

\* C16 witness: the log was cleared and then cleared again while empty; both
\* clears succeeded
C16_Witness ==
    /\ host = "api" /\ chat_history = <<>>
    /\ started = 2
    /\ \A t \in Threads : Answered(t, {"clear_history"}) /\ resp[t].code = 200

\* the smaller of two numbers
Min(a, b) == IF a < b THEN a ELSE b

\* C17: for every query answered 200 the QA chain was invoked exactly once, at most
\* 3 records were retrieved, and the sources of the response are the first
\* min(2, k) of the k retrieved records in retrieval order: the i-th source has
\* the metadata of the i-th record and, as content, the first 150 characters of
\* its text; so there are at most 2 sources, none longer than 150 characters.
C17_SourcesAreTopTwoTruncated ==
    \A t \in Threads : (Answered(t, {"query"}) /\ resp[t].code = 200) =>
        LET docs == req[t].docs
            sources == resp[t].sources
        IN  /\ req[t].invoked = 1
            /\ Len(docs) <= 3
            /\ Len(sources) = Min(2, Len(docs))
            /\ Len(sources) <= 2
            /\ \A i \in 1..Len(sources) :
                  LET text == docs[i].page_content
                      content == sources[i].content
                  IN  /\ Len(content) = Min(150, Len(text))
                      /\ Len(content) <= 150
                      /\ content = SubSeq(text, 1, Len(content))
                      /\ sources[i].metadata = docs[i].metadata

\* C17 witness: a query was answered from three retrieved records, the first of
\* them longer than 150 characters, with two sources, the first cut to 150
C17_Witness ==
    \E t \in Threads :
        /\ Answered(t, {"query"}) /\ resp[t].code = 200
        /\ Len(req[t].docs) = 3 /\ Len(resp[t].sources) = 2
        /\ Len(req[t].docs[1].page_content) > 150
        /\ Len(resp[t].sources[1].content) = 150

\* thread t takes a step of its handler
Steps(t) == pc[t] # "idle" /\ pc'[t] # pc[t]

\* thread t answers its request
Responds(t) == pc[t] # "idle" /\ pc'[t] = "idle"

\* C18: in the API backend every step that changes the chat log is line 120 of a
\* query, which appends {role: user, content: the query} at the end, or line 121
\* of that query, which appends {role: assistant, content: the answer} at the end
\* and answers 200, or the clear, which empties the log.  A query answers 200 only
\* from line 121, after both appends; a query that answers anything else (503,
\* 400, 500) has appended nothing, and no step of health, stats, capture, history
\* read or database clear changes the log.
C18_ChatLogFrame ==
    [][host = "api" =>
            /\ chat_history' # chat_history =>
                  \E t \in Threads :
                     \/ /\ req[t].op = "query" /\ pc[t] = "query120"
                        /\ pc'[t] = "query121"
                        /\ chat_history' =
                              chat_history \o <<[role |-> "user",
                                                 content |-> req[t].user_query]>>
                     \/ /\ req[t].op = "query" /\ pc[t] = "query121"
                        /\ Responds(t) /\ resp'[t].code = 200
                        /\ chat_history' =
                              chat_history \o <<[role |-> "assistant",
                                                 content |-> resp'[t].response]>>
                     \/ /\ req[t].op = "clear_history" /\ Steps(t)
                        /\ chat_history' = <<>>
            /\ \A t \in Threads :
                  (req[t].op = "query" /\ Responds(t)) =>
                      IF resp'[t].code = 200
                      THEN pc[t] = "query121"
                      ELSE /\ pc[t] \in {"query94", "query97", "query105"}
                           /\ chat_history' = chat_history
            /\ \A t \in Threads :
                  (/\ req[t].op \in {"health", "stats", "capture", "get_history",
                                     "clear_database"}
                   /\ Steps(t)) => chat_history' = chat_history]_vars

\* C18 witness: one query was answered 200 and the log holds its two turns, user
\* then assistant; another query ended in 500 and left nothing in the log
C18_Witness ==
    /\ host = "api"
    /\ \E t \in Threads : \E u \in Threads :
          /\ Answered(t, {"query"}) /\ resp[t].code = 200
          /\ Answered(u, {"query"}) /\ resp[u].code = 500
          /\ chat_history = <<[role |-> "user", content |-> req[t].user_query],
                              [role |-> "assistant", content |-> resp[t].response]>>

\* the extracted text, stripped of leading and trailing whitespace, has at least
\* 10 characters
Meaningful(text) == Len(Strip(text)) >= 10

\* thread t runs a full-screen capture, of the API backend or of the menu bar
Capturing(t) == req[t].op \in {"capture", "mb_capture"}

\* the step in which the capture of thread t stores its record
Stores(t) ==
    /\ Capturing(t)
    /\ pc[t] \in {"addtext68", "mbaddtext68"}
    /\ pc'[t] \in {"idle", "mbcap166"}
    /\ collection' # collection

CompleteTurns(log) ==
    /\ Len(log) % 2 = 0
    /\ \A i \in 1..Len(log) :
          log[i].role = IF i % 2 = 1 THEN "user" ELSE "assistant"

\* C20 as claimed: in the API backend, whenever no query is between its two
\* appends, the chat log is a sequence of complete turns: its length is even and
\* every assistant entry comes right after a user entry.
C20_ChatLogIsCompleteTurns ==
    (host = "api" /\ \A t \in Threads : pc[t] # "query121") =>
        CompleteTurns(chat_history)

\* the effect of a web UI query on the UI's log and its answer, for the bodies in
\* `bodies`: a query with missing or empty text answers 400 and never changes the
\* log; one with text appends the user entry before the callback is invoked, and
\* after the callback either the assistant entry with the callback's result,
\* answering success=true, or, the callback having raised, the system entry
\* 'Error: ...', answering 500 with success=false
UiQueryEffect(t, bodies) ==
    (req[t].op = "ui_query" /\ req[t].body \in bodies /\ Steps(t)) =>
        IF QueryMissing(req[t].body)
        THEN /\ ui_history' = ui_history
             /\ Responds(t) /\ resp'[t].code = 400
        ELSE \/ /\ pc[t] = "ui53" /\ ui_history' = ui_history /\ ~Responds(t)
             \/ /\ pc[t] = "ui61" /\ req[t].invoked = 0 /\ ~Responds(t)
                /\ ui_history' =
                      ui_history \o <<[role |-> "user",
                                       content |-> req[t].body.data["query"]]>>
             \/ /\ pc[t] \in {"cb69", "hq315", "hq319"}
                /\ ui_history' = ui_history /\ ~Responds(t)
                /\ pc'[t] = "ui91" <=> (host = "web_ui" /\ req'[t].raised)
             \/ /\ pc[t] = "ui76" /\ Responds(t)
                /\ resp'[t].code = 200 /\ resp'[t].success = "true"
                /\ resp'[t].response = req[t].answer
                /\ ui_history' =
                      ui_history \o <<[role |-> "assistant", content |-> req[t].answer]>>
             \/ /\ pc[t] = "ui91" /\ Responds(t)
                /\ resp'[t].code = 500 /\ resp'[t].success = "false"
                /\ \E e \in Exceptions :
                      ui_history' =
                         ui_history \o <<[role |-> "system", content |-> "Error: " \o e]>>

\* C21 as claimed: every query of the web chat UI with non-empty text appends
\* exactly two entries to the UI's log, the user entry before the callback is
\* invoked and then the assistant entry (success=true) or, if the callback raised,
\* the system entry 'Error: ...' (500, success=false); a query with missing or
\* empty text answers 400 and leaves the log unchanged.
C21_UiQueryAppendsTwoEntries ==
    [][\A t \in Threads : UiQueryEffect(t, Bodies)]_vars

\* C21 for requests whose body is a JSON object
UiQueryAppendsTwoEntries_ObjectBodies ==
    [][\A t \in Threads :
          UiQueryEffect(t, {b \in Bodies : b.kind = "object"})]_vars

\* the callback of a web UI query raised, and the log holds the user entry and
\* the system entry
UiCallbackRaised ==
    /\ host = "web_ui"
    /\ \E t \in Threads :
          /\ Answered(t, {"ui_query"}) /\ resp[t].code = 500 /\ req[t].raised
          /\ Len(ui_history) = 2
          /\ ui_history[1].role = "user" /\ ui_history[2].role = "system"

\* a DELETE /api/database of a thread other than t has deleted the collection
\* and is yet to recreate it
OtherClearInProgress(t) ==
    \E u \in Threads \ {t} :
        /\ req[u].op = "clear_database" /\ req[u].deleted
        /\ pc[u] \in {"clear209", "clear209create"}

\* C22 as claimed: when DELETE /api/database answers 500 the request has removed
\* nothing: its delete_collection did not take effect, and the collection exists
\* as the request finishes (unless another DELETE is between its own delete and
\* recreate at that moment).
C22_ClearDatabaseAllOrNothing ==
    [][\A t \in Threads :
          (req[t].op = "clear_database" /\ Responds(t) /\ resp'[t].code = 500) =>
              /\ ~req[t].deleted
              /\ collection'.exists \/ OtherClearInProgress(t)]_vars

====
